---- MODULE Spec2Model ----
(***************************************************************************)
(* A model of the seqsim library: the generalized Wagner-Fischer solver    *)
(* with its cost functions, the MMCWPA round function, the Birnbaum       *)
(* similarity and the distance() dispatcher.                               *)
(*                                                                         *)
(* Sequences are TLA+ sequences over Sigma.  Matrix costs are stored in    *)
(* halves (Scale units per 1.0), so that the 0.5 discounts are exact.      *)
(* Returned numbers are exact fractions [num, den].                        *)
(***************************************************************************)
EXTENDS Integers, Sequences, FiniteSets, TLC

VARIABLES op, args, pc, wf, mm, ds, ret

vars == <<op, args, pc, wf, mm, ds, ret>>

(* ------------------------------ bounds --------------------------------- *)
NSym == 3
MaxLen == 3
MaxDel == 3
MaxSeqs == 4
MaxDistLen == 1

Sigma == 1..NSym
SeqsUpTo(n) == UNION {[1..k -> Sigma] : k \in 0..n}
Seqs == SeqsUpTo(MaxLen)

(* ------------------------------ numbers -------------------------------- *)
Scale == 2

\* the defaults of max_del_len, frag_start and frag_end
DefaultMaxDelLen == 5
DefaultFrag == 10

Value(n, dn) == [kind |-> "value", num |-> n, den |-> dn]
Raise(e) == [kind |-> e, num |-> 0, den |-> 1]
None == [kind |-> "none", num |-> 0, den |-> 1]

IsValue(v) == v.kind = "value"
REq(a, b) == a.num * b.den = b.num * a.den
RLe(a, b) == a.num * b.den <= b.num * a.den
RAdd(a, b) == Value(a.num * b.den + b.num * a.den, a.den * b.den)
Cost(k) == Value(k * Scale, Scale)

Max2(a, b) == IF a >= b THEN a ELSE b
Min2(a, b) == IF a <= b THEN a ELSE b
Range(s) == {s[k] : k \in 1..Len(s)}
MinOf(s) == CHOOSE v \in Range(s) : \A w \in Range(s) : v <= w

\* what min() yields for an empty argument: it raises ValueError
MinError == -1

\* mutant: the minimum of no candidates is 0, as min(costs, default=0)
min_mut(s) == IF s = <<>> THEN 0 ELSE MinOf(s)

\* min(costs): the least candidate, ValueError for an empty collection
min(s) == IF s = <<>> THEN MinError ELSE MinOf(s)

Slice(s, lo, hi) == SubSeq(s, lo + 1, Min2(hi, Len(s)))
Half == Scale \div 2

\* Python's round() of the number num / den: to the nearest integer, a tie
\* to the even one
round(num, den) ==
    LET q == num \div den
        r == num % den
    IN  IF 2 * r < den THEN q
        ELSE IF 2 * r > den THEN q + 1
        ELSE IF q % 2 = 0 THEN q ELSE q + 1

NoArgs == [seq_x |-> <<>>, seq_y |-> <<>>, normal |-> FALSE, max_del_len |-> 0]
NoCell == <<0, 0>>
NoWF == [d |-> <<>>, i |-> 0, j |-> 0, costs_fn |-> "none", written |-> <<>>]
NoMM == [f_x |-> <<>>, f_y |-> <<>>, ssnc |-> 0, rounds |-> 0,
         seq_x |-> <<>>, seq_y |-> <<>>]
NoDS == [dists |-> <<>>, calls |-> 0]

(* ------------------------- cost functions ------------------------------ *)
\* mutant: a substitution is charged even when the two elements are equal
_levenshtein_costs_mut(seq_x, seq_y, d, i, j) ==
    << d[i - 1][j] + Scale,
       d[i][j - 1] + Scale,
       d[i - 1][j - 1] + Scale >>

_levenshtein_costs(seq_x, seq_y, d, i, j) ==
    LET substitution_cost == IF seq_x[i] = seq_y[j] THEN 0 ELSE Scale
    IN  << d[i - 1][j] + Scale,
           d[i][j - 1] + Scale,
           d[i - 1][j - 1] + substitution_cost >>

\* mutant: the transposition test looks at one of the two swapped elements only
_levdamerau_costs_mut(seq_x, seq_y, d, i, j) ==
    LET substitution_cost == IF seq_x[i] = seq_y[j] THEN 0 ELSE Scale
        costs == << d[i - 1][j] + Scale,
                    d[i][j - 1] + Scale,
                    d[i - 1][j - 1] + substitution_cost >>
    IN  IF i > 1 /\ j > 1 /\ seq_x[i] = seq_y[j - 1]
        THEN Append(costs, d[i - 2][j - 2] + Scale)
        ELSE costs

_levdamerau_costs(seq_x, seq_y, d, i, j) ==
    LET substitution_cost == IF seq_x[i] = seq_y[j] THEN 0 ELSE Scale
        costs == << d[i - 1][j] + Scale,
                    d[i][j - 1] + Scale,
                    d[i - 1][j - 1] + substitution_cost >>
    IN  IF i > 1 /\ j > 1 /\ seq_x[i] = seq_y[j - 1] /\ seq_x[i - 1] = seq_y[j]
        THEN Append(costs, d[i - 2][j - 2] + Scale)
        ELSE costs

_bulk_delete_costs(max_del_len, seq_x, seq_y, d, i, j) ==
    LET substitution_cost == IF seq_x[i] = seq_y[j] THEN 0 ELSE Scale
        costs == << d[i][j - 1] + Scale,
                    d[i - 1][j - 1] + substitution_cost >>
        \* for n in range(1, min(max_del_len + 1, i))
        hi == Min2(max_del_len + 1, i) - 1
    IN  costs \o [n \in 1..hi |-> d[i - n][j] + Scale]

\* i <= round(0.1 * m) or i >= round(0.9 * m)
FragileEnd(m, i) == i <= round(m, 10) \/ i >= round(9 * m, 10)

_fragile_ends_costs(seq_x, seq_y, d, i, j) ==
    LET substitution_cost == IF seq_x[i] = seq_y[j] THEN 0 ELSE Scale
        costs == << d[i][j - 1] + Scale,
                    d[i - 1][j - 1] + substitution_cost >>
    IN  IF FragileEnd(Len(seq_x), i)
        THEN Append(costs, d[i - 1][j] + Half)
        ELSE Append(costs, d[i - 1][j] + Scale)

\* i <= lower or i >= upper, with lower = round(m * frag_start / 100.0) and
\* upper = round(m * (100 - frag_end) / 100.0)
FragileZone(m, frag_start, frag_end, i) ==
    i <= round(m * frag_start, 100) \/ i >= round(m * (100 - frag_end), 100)

_stemmatological_costs(max_del_len, frag_start, frag_end, seq_x, seq_y, d, i, j) ==
    LET substitution_cost == IF seq_x[i] = seq_y[j] THEN 0 ELSE Scale
        costs == << d[i][j - 1] + Scale,
                    d[i - 1][j - 1] + substitution_cost >>
        \* for n in range(1, min(max_del_len, i))
        hi == Min2(max_del_len, i) - 1
        step == IF FragileZone(Len(seq_x), frag_start, frag_end, i) THEN Half ELSE Scale
    IN  costs \o [n \in 1..hi |-> d[i - n][j] + step]

\* a cost function written by the caller of _wagner_fischer: the candidates
\* of _levenshtein_costs, and no candidate at all for the cell empty_at
_caller_costs(empty_at, seq_x, seq_y, d, i, j) ==
    IF <<i, j>> = empty_at THEN <<>> ELSE _levenshtein_costs(seq_x, seq_y, d, i, j)

costs_fn_call(costs_fn, seq_x, seq_y, d, i, j) ==
    CASE costs_fn.name = "_levenshtein_costs" -> _levenshtein_costs(seq_x, seq_y, d, i, j)
      [] costs_fn.name = "_levdamerau_costs" -> _levdamerau_costs(seq_x, seq_y, d, i, j)
      [] costs_fn.name = "_bulk_delete_costs" ->
             _bulk_delete_costs(costs_fn.max_del_len, seq_x, seq_y, d, i, j)
      [] costs_fn.name = "_fragile_ends_costs" -> _fragile_ends_costs(seq_x, seq_y, d, i, j)
      [] costs_fn.name = "_stemmatological_costs" ->
             _stemmatological_costs(costs_fn.max_del_len, costs_fn.frag_start,
                                    costs_fn.frag_end, seq_x, seq_y, d, i, j)
      [] costs_fn.name = "_caller_costs" ->
             _caller_costs(costs_fn.empty_at, seq_x, seq_y, d, i, j)

(* ------------------------- initial matrices ---------------------------- *)
GenericMatrix(m, n) ==
    [i \in 0..m |-> [j \in 0..n |->
        IF j = 0 THEN i * Scale ELSE IF i = 0 THEN j * Scale ELSE 0]]

_bulk_delete_initial_matrix(seq_x, seq_y, max_del_len) ==
    LET m == Len(seq_x)
        n == Len(seq_y)
        col(i) == LET bulk_deletions == i \div max_del_len
                      remainder == i - bulk_deletions * max_del_len
                  IN  IF remainder # 0 THEN bulk_deletions + 1 ELSE bulk_deletions
    IN  [i \in 0..m |-> [j \in 0..n |->
            IF i = 0 THEN j * Scale ELSE IF j = 0 THEN col(i) * Scale ELSE 0]]

\* d[i][0] = d[i - 1][0] + 0.5 at a fragile end, + 1 elsewhere
RECURSIVE FragileColumn(_, _)
FragileColumn(m, i) ==
    IF i = 0 THEN 0
    ELSE FragileColumn(m, i - 1) + (IF FragileEnd(m, i) THEN Half ELSE Scale)

_fragile_ends_initial_matrix(seq_x, seq_y) ==
    LET m == Len(seq_x)
        n == Len(seq_y)
    IN  [i \in 0..m |-> [j \in 0..n |->
            IF i = 0 THEN j * Scale ELSE IF j = 0 THEN FragileColumn(m, i) ELSE 0]]

\* d[i][0] = d[i - min(i, max_del_len)][0] + 0.5 in a fragile zone, + 1.0 elsewhere
RECURSIVE StemmatologicalColumn(_, _, _, _, _)
StemmatologicalColumn(m, max_del_len, frag_start, frag_end, i) ==
    IF i = 0 THEN 0
    ELSE StemmatologicalColumn(m, max_del_len, frag_start, frag_end,
                               i - Min2(i, max_del_len))
         + (IF FragileZone(m, frag_start, frag_end, i) THEN Half ELSE Scale)

\* mutant: the boundary column of the generic matrix, d[i][0] = i
_stemmatological_initial_matrix_mut(seq_x, seq_y, max_del_len, frag_start, frag_end) ==
    [i \in 0..Len(seq_x) |-> [j \in 0..Len(seq_y) |->
        IF i = 0 THEN j * Scale ELSE IF j = 0 THEN i * Scale ELSE 0]]

_stemmatological_initial_matrix(seq_x, seq_y, max_del_len, frag_start, frag_end) ==
    LET m == Len(seq_x)
        n == Len(seq_y)
    IN  [i \in 0..m |-> [j \in 0..n |->
            IF i = 0 THEN j * Scale
            ELSE IF j = 0
                 THEN StemmatologicalColumn(m, max_del_len, frag_start, frag_end, i)
                 ELSE 0]]

(* --------------------------- _wagner_fischer --------------------------- *)
FillCell(seq_x, seq_y, costs_fn, d, i, j) ==
    [d EXCEPT ![i][j] = min(costs_fn_call(costs_fn, seq_x, seq_y, d, i, j))]

\* for j in range(1, n + 1): for i in range(1, m + 1)
LoopDone(m, n, i, j) == m = 0 \/ j > n
NextI(m, i) == IF i < m THEN i + 1 ELSE 1

\* mutant: the column advances with every cell
NextJ_mut(m, i, j) == j + 1

NextJ(m, i, j) == IF i < m THEN j ELSE j + 1

RECURSIVE Flood(_, _, _, _, _, _)
Flood(seq_x, seq_y, costs_fn, d, i, j) ==
    IF LoopDone(Len(seq_x), Len(seq_y), i, j) THEN d
    ELSE Flood(seq_x, seq_y, costs_fn,
               FillCell(seq_x, seq_y, costs_fn, d, i, j),
               NextI(Len(seq_x), i), NextJ(Len(seq_x), i, j))

_wagner_fischer(seq_x, seq_y, costs_fn, d) ==
    Flood(seq_x, seq_y, costs_fn, d, 1, 1)[Len(seq_x)][Len(seq_y)]

(* ----------------------- edit-distance entry points -------------------- *)
WFOps == {"levenshtein_dist", "levdamerau_dist", "bulk_delete_dist",
          "fragile_ends_simil", "stemmatological_simil"}

CostsOf(o, a) ==
    CASE o = "levenshtein_dist" -> [name |-> "_levenshtein_costs", max_del_len |-> 0]
      [] o = "levdamerau_dist" -> [name |-> "_levdamerau_costs", max_del_len |-> 0]
      [] o = "bulk_delete_dist" -> [name |-> "_bulk_delete_costs", max_del_len |-> a.max_del_len]
      [] o = "fragile_ends_simil" -> [name |-> "_fragile_ends_costs", max_del_len |-> 0]
      [] o = "stemmatological_simil" ->
             [name |-> "_stemmatological_costs", max_del_len |-> a.max_del_len,
              frag_start |-> a.frag_start, frag_end |-> a.frag_end]
      [] o = "_wagner_fischer" -> [name |-> "_caller_costs", empty_at |-> a.empty_at]

InitialMatrix(o, a) ==
    CASE o = "bulk_delete_dist" ->
             _bulk_delete_initial_matrix(a.seq_x, a.seq_y, a.max_del_len)
      [] o = "fragile_ends_simil" -> _fragile_ends_initial_matrix(a.seq_x, a.seq_y)
      [] o = "stemmatological_simil" ->
             _stemmatological_initial_matrix(a.seq_x, a.seq_y, a.max_del_len,
                                             a.frag_start, a.frag_end)
      [] OTHER -> GenericMatrix(Len(a.seq_x), Len(a.seq_y))

\* mutant: the distance is divided by the length of the shorter sequence
Normalize_mut(dist, a) ==
    IF a.normal
    THEN IF Min2(Len(a.seq_x), Len(a.seq_y)) = 0 THEN Raise("ZeroDivisionError")
         ELSE Value(dist, Scale * Min2(Len(a.seq_x), Len(a.seq_y)))
    ELSE Value(dist, Scale)

\* if normal: return dist / max([len(seq_x), len(seq_y)])
Normalize(dist, a) ==
    IF a.normal
    THEN IF Max2(Len(a.seq_x), Len(a.seq_y)) = 0 THEN Raise("ZeroDivisionError")
         ELSE Value(dist, Scale * Max2(Len(a.seq_x), Len(a.seq_y)))
    ELSE Value(dist, Scale)

\* fragile_ends_simil(seq_x, seq_y), without normalization
FragileEndsRaw(seq_x, seq_y) ==
    _wagner_fischer(seq_x, seq_y, [name |-> "_fragile_ends_costs", max_del_len |-> 0],
                    _fragile_ends_initial_matrix(seq_x, seq_y))

\* if normal: return similarity / max([similarity,
\*     fragile_ends_simil(x + y, x), fragile_ends_simil(x + y, y)])
NormalizeFragile(similarity, a) ==
    IF a.normal
    THEN LET largest == Max2(similarity,
                             Max2(FragileEndsRaw(a.seq_x \o a.seq_y, a.seq_x),
                                  FragileEndsRaw(a.seq_x \o a.seq_y, a.seq_y)))
         IN  IF largest = 0 THEN Raise("ZeroDivisionError")
             ELSE Value(similarity, largest)
    ELSE Value(similarity, Scale)

\* the value an entry point returns for the distance its matrix holds
Normalized(o, dist, a) ==
    IF o = "fragile_ends_simil" THEN NormalizeFragile(dist, a) ELSE Normalize(dist, a)

WFResult(o, a) ==
    Normalized(o, _wagner_fischer(a.seq_x, a.seq_y, CostsOf(o, a), InitialMatrix(o, a)), a)

levenshtein_dist(seq_x, seq_y, normal) ==
    WFResult("levenshtein_dist",
             [seq_x |-> seq_x, seq_y |-> seq_y, normal |-> normal, max_del_len |-> 0])

levdamerau_dist(seq_x, seq_y, normal) ==
    WFResult("levdamerau_dist",
             [seq_x |-> seq_x, seq_y |-> seq_y, normal |-> normal, max_del_len |-> 0])

bulk_delete_dist(seq_x, seq_y, max_del_len, normal) ==
    WFResult("bulk_delete_dist",
             [seq_x |-> seq_x, seq_y |-> seq_y, normal |-> normal,
              max_del_len |-> max_del_len])

fragile_ends_simil(seq_x, seq_y, normal) ==
    WFResult("fragile_ends_simil",
             [seq_x |-> seq_x, seq_y |-> seq_y, normal |-> normal, max_del_len |-> 0])

stemmatological_simil(seq_x, seq_y, frag_start, frag_end, max_del_len, normal) ==
    WFResult("stemmatological_simil",
             [seq_x |-> seq_x, seq_y |-> seq_y, normal |-> normal,
              max_del_len |-> max_del_len, frag_start |-> frag_start,
              frag_end |-> frag_end])

(* ------------------- the edit-distance call, step by step --------------- *)
WFArgs ==
    {[seq_x |-> x, seq_y |-> y, normal |-> nm, max_del_len |-> 0] :
        x \in Seqs, y \in Seqs, nm \in BOOLEAN}

BulkArgs ==
    {[seq_x |-> x, seq_y |-> y, normal |-> nm, max_del_len |-> k] :
        x \in Seqs, y \in Seqs, nm \in BOOLEAN, k \in 1..MaxDel}

StemmArgs ==
    {[seq_x |-> x, seq_y |-> y, normal |-> nm, max_del_len |-> k,
      frag_start |-> DefaultFrag, frag_end |-> DefaultFrag] :
        x \in Seqs, y \in Seqs, nm \in BOOLEAN, k \in (1..MaxDel) \cup {DefaultMaxDelLen}}

InitWF ==
    /\ op \in WFOps
    /\ args \in (CASE op = "bulk_delete_dist" -> BulkArgs
                   [] op = "stemmatological_simil" -> StemmArgs
                   [] OTHER -> WFArgs)
    /\ pc = "call"
    /\ wf = NoWF
    /\ mm = NoMM
    /\ ds = NoDS
    /\ ret = None

\* _wagner_fischer called with a cost function of the caller's and no d
SolverArgs ==
    {[seq_x |-> x, seq_y |-> y, normal |-> FALSE, max_del_len |-> 0, empty_at |-> c] :
        x \in Seqs, y \in Seqs, c \in ((1..MaxLen) \X (1..MaxLen)) \cup {NoCell}}

InitSolver ==
    /\ op = "_wagner_fischer"
    /\ args \in SolverArgs
    /\ pc = "call"
    /\ wf = NoWF
    /\ mm = NoMM
    /\ ds = NoDS
    /\ ret = None

\* the entry point builds its seed matrix and enters _wagner_fischer
WFEnter ==
    /\ pc = "call"
    /\ op \in WFOps \cup {"_wagner_fischer"}
    /\ wf' = [d |-> InitialMatrix(op, args), i |-> 1, j |-> 1,
              costs_fn |-> CostsOf(op, args).name, written |-> <<>>]
    /\ pc' = "fill"
    /\ UNCHANGED <<op, args, mm, ds, ret>>

\* d[i][j] = min(costs_fn(seq_x, seq_y, d, i, j)); written lists the cells
\* the loop has assigned to, in the order of the assignments
WFFill ==
    /\ pc = "fill"
    /\ ~LoopDone(Len(args.seq_x), Len(args.seq_y), wf.i, wf.j)
    /\ min(costs_fn_call(CostsOf(op, args), args.seq_x, args.seq_y, wf.d, wf.i, wf.j))
           # MinError
    /\ wf' = [wf EXCEPT
                !.d = FillCell(args.seq_x, args.seq_y, CostsOf(op, args), wf.d, wf.i, wf.j),
                !.i = NextI(Len(args.seq_x), wf.i),
                !.j = NextJ(Len(args.seq_x), wf.i, wf.j),
                !.written = Append(wf.written, <<wf.i, wf.j>>)]
    /\ UNCHANGED <<op, args, pc, mm, ds, ret>>

\* min() of an empty collection raises, and the exception leaves the call
WFRaise ==
    /\ pc = "fill"
    /\ ~LoopDone(Len(args.seq_x), Len(args.seq_y), wf.i, wf.j)
    /\ min(costs_fn_call(CostsOf(op, args), args.seq_x, args.seq_y, wf.d, wf.i, wf.j))
           = MinError
    /\ ret' = Raise("ValueError")
    /\ pc' = "done"
    /\ UNCHANGED <<op, args, wf, mm, ds>>

\* return d[m][n], normalized by the entry point when asked
WFReturn ==
    /\ pc = "fill"
    /\ LoopDone(Len(args.seq_x), Len(args.seq_y), wf.i, wf.j)
    /\ ret' = Normalized(op, wf.d[Len(args.seq_x)][Len(args.seq_y)], args)
    /\ pc' = "done"
    /\ UNCHANGED <<op, args, wf, mm, ds>>

NextWF == WFEnter \/ WFFill \/ WFReturn

SpecWF == InitWF /\ [][NextWF]_vars

NextSolver == WFEnter \/ WFFill \/ WFRaise \/ WFReturn

SpecSolver == InitSolver /\ [][NextSolver]_vars

(* ------------------------------- MMCWPA -------------------------------- *)
NotFound == -1

\* the first index at which needle occurs in hay, or None
sequence_find(hay, needle) ==
    LET len_needle == Len(needle)
        hits == {i \in 0..(Len(hay) - len_needle) : Slice(hay, i, i + len_needle) = needle}
    IN  IF hits = {} THEN NotFound
        ELSE CHOOSE i \in hits : \A k \in hits : i <= k

\* mutant: the sliding window starts one element short of the whole fragment
WindowLengths_mut(sf_x) == 1..(Len(sf_x) - 1)

\* for length in range(len(sf_x), 0, -1)
WindowLengths(sf_x) == 1..Len(sf_x)

\* mutant: one element is cut out of the fragment, whatever the window length
RemoveWindow_mut(sf, i, length) == << Slice(sf, 0, i), Slice(sf, i + 1, Len(sf)) >>

\* [sf[:i], sf[i + length:]]
RemoveWindow(sf, i, length) == << Slice(sf, 0, i), Slice(sf, i + length, Len(sf)) >>

\* the fragments of seq_x for which the body of the outer loop runs: the
\* return statement closes the body, so the loop ends with the first one
ScannedFragments(seq_x) == IF seq_x = <<>> THEN {} ELSE {1}

\* the windows of the scanned fragments that occur in a fragment of seq_y
Matches(seq_x, seq_y) ==
    {c \in [idx_x : ScannedFragments(seq_x), length : 1..MaxLen,
            i : 0..MaxLen, idx_y : 1..Len(seq_y)] :
        /\ c.length \in WindowLengths(seq_x[c.idx_x])
        /\ c.i <= Len(seq_x[c.idx_x]) - c.length
        /\ sequence_find(seq_y[c.idx_y],
                         Slice(seq_x[c.idx_x], c.i, c.i + c.length)) # NotFound}

\* mutant: the window grows from a single element to the whole fragment
ScanBefore_mut(a, b) ==
    \/ a.idx_x < b.idx_x
    \/ a.idx_x = b.idx_x /\ a.length < b.length
    \/ a.idx_x = b.idx_x /\ a.length = b.length /\ a.i < b.i
    \/ a.idx_x = b.idx_x /\ a.length = b.length /\ a.i = b.i /\ a.idx_y <= b.idx_y

\* the order in which the nested loops reach two windows
ScanBefore(a, b) ==
    \/ a.idx_x < b.idx_x
    \/ a.idx_x = b.idx_x /\ a.length > b.length
    \/ a.idx_x = b.idx_x /\ a.length = b.length /\ a.i < b.i
    \/ a.idx_x = b.idx_x /\ a.length = b.length /\ a.i = b.i /\ a.idx_y <= b.idx_y

\* mutant: the fragments left empty by the removal are kept
NonEmpty_mut(sf) == TRUE

\* [sf for sf in new_f_x if sf]
NonEmpty(sf) == sf # <<>>

\* mutant: a round without a match hands back the lists it was given
Unmatched_mut(seq_x, seq_y, ssnc) == << seq_x, seq_y, ssnc >>

\* new_f_x, new_f_y = [], [] are returned as they are when nothing matches
Unmatched(seq_x, seq_y, ssnc) == << <<>>, <<>>, ssnc >>

\* the body of `if j is not None and not match`, for the window c, and the
\* filtering of the empty fragments: <<new_f_x, new_f_y, ssnc>>
Matched(seq_x, seq_y, ssnc, c) ==
    LET sf_x == seq_x[c.idx_x]
        sf_y == seq_y[c.idx_y]
        j == sequence_find(sf_y, Slice(sf_x, c.i, c.i + c.length))
        tmp_x == RemoveWindow(sf_x, c.i, c.length)
        tmp_y == RemoveWindow(sf_y, j, c.length)
        new_f_x == SubSeq(seq_x, 1, c.idx_x - 1) \o tmp_x
                       \o SubSeq(seq_x, c.idx_x + 1, Len(seq_x))
        new_f_y == SubSeq(seq_y, 1, c.idx_y - 1) \o tmp_y
                       \o SubSeq(seq_y, c.idx_y + 1, Len(seq_y))
    IN  << SelectSeq(new_f_x, NonEmpty), SelectSeq(new_f_y, NonEmpty),
           ssnc + (2 * c.length) * (2 * c.length) >>

\* one round: <<new_f_x, new_f_y, ssnc>>, for the first window the loops reach
_mmcwpa(seq_x, seq_y, ssnc) ==
    LET found == Matches(seq_x, seq_y)
    IN  IF found = {} THEN Unmatched(seq_x, seq_y, ssnc)
        ELSE CHOOSE r \in {Matched(seq_x, seq_y, ssnc, c) :
                              c \in {a \in found : \A b \in found : ScanBefore(a, b)}} :
                 TRUE

\* the number 1.0 - ((ssnc / ((len_a + len_b) ** 2.0)) ** 0.5), kept as the
\* fraction under the root
OneMinusRoot(ssnc, total) ==
    IF total = 0 THEN Raise("ZeroDivisionError")
    ELSE [kind |-> "1-sqrt", num |-> ssnc, den |-> total * total]

RECURSIVE MMLoop(_, _, _)
MMLoop(f_x, f_y, ssnc) ==
    IF f_x # <<>> /\ f_y # <<>>
    THEN LET r == _mmcwpa(f_x, f_y, ssnc) IN MMLoop(r[1], r[2], r[3])
    ELSE ssnc

mmcwpa_dist(seq_x, seq_y, normal) ==
    OneMinusRoot(MMLoop(<<seq_x>>, <<seq_y>>, 0), Len(seq_x) + Len(seq_y))

(* the legacy module seqsim/mmcwpa.py: _mmcwpa and mmcwpa *)
\* the windows of any fragment of f_x that sf_y.find(pattern) finds in a
\* fragment of f_y: the return is inside `if j > -1`, every fragment is scanned
LegacyMatches(f_x, f_y) ==
    {c \in [idx_x : 1..Len(f_x), length : 1..MaxLen,
            i : 0..MaxLen, idx_y : 1..Len(f_y)] :
        /\ c.length \in WindowLengths(f_x[c.idx_x])
        /\ c.i <= Len(f_x[c.idx_x]) - c.length
        /\ sequence_find(f_y[c.idx_y],
                         Slice(f_x[c.idx_x], c.i, c.i + c.length)) # NotFound}

\* seqsim/mmcwpa.py, _mmcwpa: one round, <<new_f_x, new_f_y, ssnc>>
legacy__mmcwpa(f_x, f_y, ssnc) ==
    LET found == LegacyMatches(f_x, f_y)
    IN  IF found = {} THEN << <<>>, <<>>, ssnc >>
        ELSE CHOOSE r \in {Matched(f_x, f_y, ssnc, c) :
                              c \in {a \in found : \A b \in found : ScanBefore(a, b)}} :
                 TRUE

\* while True: f_x, f_y, ssnc = _mmcwpa(f_x, f_y, ssnc), left when a list is empty
RECURSIVE LegacyLoop(_, _, _)
LegacyLoop(f_x, f_y, ssnc) ==
    LET r == legacy__mmcwpa(f_x, f_y, ssnc)
    IN  IF r[1] = <<>> \/ r[2] = <<>> THEN r[3] ELSE LegacyLoop(r[1], r[2], r[3])

\* seqsim/mmcwpa.py, mmcwpa: (ssnc / ((len_x + len_y) ** 2.)) ** 0.5, kept as
\* the fraction under the root
legacy_mmcwpa(str_x, str_y) ==
    LET total == Len(str_x) + Len(str_y)
    IN  IF total = 0 THEN Raise("ZeroDivisionError")
        ELSE [kind |-> "sqrt", num |-> LegacyLoop(<<str_x>>, <<str_y>>, 0),
              den |-> total * total]

InitMM ==
    /\ op = "mmcwpa_dist"
    /\ args \in WFArgs
    /\ pc = "call"
    /\ wf = NoWF
    /\ mm = NoMM
    /\ ds = NoDS
    /\ ret = None

\* f_x, f_y = [seq_x], [seq_y]; ssnc = 0.0
MMEnter ==
    /\ pc = "call"
    /\ op = "mmcwpa_dist"
    /\ mm' = [NoMM EXCEPT !.f_x = <<args.seq_x>>, !.f_y = <<args.seq_y>>]
    /\ pc' = "loop"
    /\ UNCHANGED <<op, args, wf, ds, ret>>

\* while f_x and f_y: f_x, f_y, ssnc = _mmcwpa(f_x, f_y, ssnc); seq_x and
\* seq_y are the two lists handed to _mmcwpa, as they are when it returns: it
\* reads, slices and concatenates them, and assigns to none of their items
MMRound ==
    /\ pc = "loop"
    /\ mm.f_x # <<>> /\ mm.f_y # <<>>
    /\ LET r == _mmcwpa(mm.f_x, mm.f_y, mm.ssnc)
       IN  mm' = [f_x |-> r[1], f_y |-> r[2], ssnc |-> r[3], rounds |-> mm.rounds + 1,
                  seq_x |-> mm.f_x, seq_y |-> mm.f_y]
    /\ UNCHANGED <<op, args, pc, wf, ds, ret>>

MMReturn ==
    /\ pc = "loop"
    /\ ~(mm.f_x # <<>> /\ mm.f_y # <<>>)
    /\ ret' = OneMinusRoot(mm.ssnc, Len(args.seq_x) + Len(args.seq_y))
    /\ pc' = "done"
    /\ UNCHANGED <<op, args, wf, mm, ds>>

NextMM == MMEnter \/ MMRound \/ MMReturn

SpecMM == InitMM /\ [][NextMM]_vars

\* the call keeps running until it returns
SpecMMLive == SpecMM /\ WF_vars(NextMM)

(* ------------------------------ Birnbaum ------------------------------- *)
\* difflib.SequenceMatcher(None, a, b).find_longest_match(alo, ahi, blo, bhi):
\* the longest block a[i:i+k] == b[j:j+k] inside the two ranges; of the
\* longest ones the one starting earliest in a, then earliest in b
find_longest_match(a, b, alo, ahi, blo, bhi) ==
    LET blocks == {m \in [i : alo..(ahi - 1), j : blo..(bhi - 1), k : 1..(ahi - alo)] :
                      /\ m.i + m.k <= ahi /\ m.j + m.k <= bhi
                      /\ Slice(a, m.i, m.i + m.k) = Slice(b, m.j, m.j + m.k)}
    IN  IF blocks = {} THEN [i |-> alo, j |-> blo, k |-> 0]
        ELSE CHOOSE m \in blocks : \A o \in blocks :
                 \/ m.k > o.k
                 \/ m.k = o.k /\ m.i < o.i
                 \/ m.k = o.k /\ m.i = o.i /\ m.j <= o.j

\* the blocks get_matching_blocks() collects, sorted: the longest match of the
\* range, then those of the ranges to its left and to its right
RECURSIVE MatchingBlocks(_, _, _, _, _, _)
MatchingBlocks(a, b, alo, ahi, blo, bhi) ==
    LET x == find_longest_match(a, b, alo, ahi, blo, bhi)
    IN  IF x.k = 0 THEN <<>>
        ELSE (IF alo < x.i /\ blo < x.j
              THEN MatchingBlocks(a, b, alo, x.i, blo, x.j) ELSE <<>>)
             \o <<x>>
             \o (IF x.i + x.k < ahi /\ x.j + x.k < bhi
                 THEN MatchingBlocks(a, b, x.i + x.k, ahi, x.j + x.k, bhi) ELSE <<>>)

\* adjacent blocks are collapsed into one
RECURSIVE Collapse(_)
Collapse(blocks) ==
    IF Len(blocks) < 2 THEN blocks
    ELSE LET b1 == blocks[1]
             b2 == blocks[2]
         IN  IF b1.i + b1.k = b2.i /\ b1.j + b1.k = b2.j
             THEN Collapse(<<[b1 EXCEPT !.k = b1.k + b2.k]>> \o SubSeq(blocks, 3, Len(blocks)))
             ELSE <<b1>> \o Collapse(Tail(blocks))

\* sm.get_matching_blocks()[:-1]
get_matching_blocks(a, b) == Collapse(MatchingBlocks(a, b, 0, Len(a), 0, Len(b)))

RECURSIVE SumSeq(_)
SumSeq(s) == IF s = <<>> THEN 0 ELSE Head(s) + SumSeq(Tail(s))

Triangular(v) == (v * (v + 1)) \div 2

\* sum([(v * (v + 1)) // 2 for v in sizes])
BlockScore(a, b) ==
    LET blocks == get_matching_blocks(a, b)
    IN  SumSeq([n \in 1..Len(blocks) |-> Triangular(blocks[n].k)])

\* edit.birnbaum_simil
birnbaum_simil(seq_x, seq_y, normal) ==
    IF seq_x = seq_y THEN Value(Triangular(Len(seq_x)), 1)
    ELSE LET a == IF Len(seq_x) < Len(seq_y) THEN seq_y ELSE seq_x
             b == IF Len(seq_x) < Len(seq_y) THEN seq_x ELSE seq_y
             similarity == BlockScore(a, b)
         IN  IF normal
             THEN Value(similarity, Max2(Triangular(Len(a)), Triangular(Len(b))))
             ELSE Value(similarity, 1)

\* methods.fast_birnbaum_simil: the same block matching, normalized by its
\* own score of each sequence against itself
fast_birnbaum_simil(seq_x, seq_y, normal) ==
    IF seq_x = seq_y THEN Value((Len(seq_x) * (Len(seq_x) + 1)) \div 2, 1)
    ELSE LET a == IF Len(seq_x) < Len(seq_y) THEN seq_y ELSE seq_x
             b == IF Len(seq_x) < Len(seq_y) THEN seq_x ELSE seq_y
             similarity == BlockScore(a, b)
         IN  IF normal
             THEN Value(similarity, Max2((Len(a) * (Len(a) + 1)) \div 2,
                                         (Len(b) * (Len(b) + 1)) \div 2))
             ELSE Value(similarity, 1)

\* mutant: the last window of each length is left out
_nwise_mut(I, n) == [k \in 1..(Len(I) - n) |-> Slice(I, k - 1, k - 1 + n)]

\* for i in range(len(I) + 1 - n): yield I[i : i + n]
_nwise(I, n) == [k \in 1..(Len(I) + 1 - n) |-> Slice(I, k - 1, k - 1 + n)]

\* [idx for idx, value in enumerate(L) if value == element]
_indices(L, element) == {idx \in 0..(Len(L) - 1) : L[idx + 1] = element}

\* the loops of the exhaustive method, seq_x being the longer sequence: one
\* count for every window of seq_y and every place of seq_x where it occurs
ExhaustiveCount(seq_x, seq_y) ==
    Cardinality({t \in (1..Len(seq_y)) \X (1..Len(seq_y)) \X (0..(Len(seq_x) - 1)) :
        /\ t[2] <= Len(_nwise(seq_y, t[1]))
        /\ t[3] \in _indices(seq_x, _nwise(seq_y, t[1])[t[2]][1])
        /\ Slice(seq_x, t[3], t[3] + t[1]) = _nwise(seq_y, t[1])[t[2]]})

\* methods.birnbaum_simil, the exhaustive method
methods_birnbaum_simil(seq_x, seq_y, normal) ==
    LET a == IF Len(seq_x) < Len(seq_y) THEN seq_y ELSE seq_x
        b == IF Len(seq_x) < Len(seq_y) THEN seq_x ELSE seq_y
        similarity == ExhaustiveCount(a, b)
    IN  IF normal
        THEN LET largest == Max2(ExhaustiveCount(a, a), ExhaustiveCount(b, b))
             IN  IF largest = 0 THEN Raise("ZeroDivisionError")
                 ELSE Value(similarity, largest)
        ELSE Value(similarity, 1)

\* 1 - v, and max(0.0, v)
OneMinus(v) == IF IsValue(v) THEN Value(v.den - v.num, v.den) ELSE v
ClampAtZero(v) == IF IsValue(v) /\ v.num < 0 THEN Value(0, 1) ELSE v

\* simil / denom, a division by zero raising
Ratio(simil, denom) ==
    IF denom.num = 0 THEN Raise("ZeroDivisionError")
    ELSE Value(simil.num * denom.den, simil.den * denom.num)

\* edit.birnbaum_dist: seq_y the shorter sequence after the swap
birnbaum_dist(seq_x, seq_y, normal) ==
    LET a == IF Len(seq_y) > Len(seq_x) THEN seq_y ELSE seq_x
        b == IF Len(seq_y) > Len(seq_x) THEN seq_x ELSE seq_y
    IN  ClampAtZero(OneMinus(Ratio(birnbaum_simil(a, b, FALSE), birnbaum_simil(b, b, FALSE))))

\* methods.birnbaum_dist: the same wrapper around the exhaustive method
methods_birnbaum_dist(seq_x, seq_y, normal) ==
    LET a == IF Len(seq_y) > Len(seq_x) THEN seq_y ELSE seq_x
        b == IF Len(seq_y) > Len(seq_x) THEN seq_x ELSE seq_y
    IN  ClampAtZero(OneMinus(Ratio(methods_birnbaum_simil(a, b, FALSE),
                                   methods_birnbaum_simil(b, b, FALSE))))

\* mutant: the wrapper calls the exhaustive method
fast_birnbaum_dist_mut(seq_x, seq_y, normal) ==
    LET a == IF Len(seq_y) > Len(seq_x) THEN seq_y ELSE seq_x
        b == IF Len(seq_y) > Len(seq_x) THEN seq_x ELSE seq_y
        denom == Value(Len(b) * (Len(b) + 1), 2)
    IN  OneMinus(Ratio(methods_birnbaum_simil(a, b, FALSE), denom))

\* edit.fast_birnbaum_dist: denom = (len(seq_y) * (len(seq_y) + 1)) / 2, no clamp
fast_birnbaum_dist(seq_x, seq_y, normal) ==
    LET a == IF Len(seq_y) > Len(seq_x) THEN seq_y ELSE seq_x
        b == IF Len(seq_y) > Len(seq_x) THEN seq_x ELSE seq_y
        denom == Value(Len(b) * (Len(b) + 1), 2)
    IN  OneMinus(Ratio(birnbaum_simil(a, b, FALSE), denom))

BirnbaumOps ==
    {"birnbaum_simil", "methods.birnbaum_simil", "methods.fast_birnbaum_simil",
     "birnbaum_dist", "fast_birnbaum_dist", "methods.birnbaum_dist"}

InitBirnbaum ==
    /\ op \in BirnbaumOps
    /\ args \in WFArgs
    /\ pc = "call"
    /\ wf = NoWF
    /\ mm = NoMM
    /\ ds = NoDS
    /\ ret = None

BirnbaumSimil ==
    /\ pc = "call"
    /\ op = "birnbaum_simil"
    /\ ret' = birnbaum_simil(args.seq_x, args.seq_y, args.normal)
    /\ pc' = "done"
    /\ UNCHANGED <<op, args, wf, mm, ds>>

MethodsBirnbaumSimil ==
    /\ pc = "call"
    /\ op = "methods.birnbaum_simil"
    /\ ret' = methods_birnbaum_simil(args.seq_x, args.seq_y, args.normal)
    /\ pc' = "done"
    /\ UNCHANGED <<op, args, wf, mm, ds>>

FastBirnbaumSimil ==
    /\ pc = "call"
    /\ op = "methods.fast_birnbaum_simil"
    /\ ret' = fast_birnbaum_simil(args.seq_x, args.seq_y, args.normal)
    /\ pc' = "done"
    /\ UNCHANGED <<op, args, wf, mm, ds>>

BirnbaumDist ==
    /\ pc = "call"
    /\ op = "birnbaum_dist"
    /\ ret' = birnbaum_dist(args.seq_x, args.seq_y, args.normal)
    /\ pc' = "done"
    /\ UNCHANGED <<op, args, wf, mm, ds>>

MethodsBirnbaumDist ==
    /\ pc = "call"
    /\ op = "methods.birnbaum_dist"
    /\ ret' = methods_birnbaum_dist(args.seq_x, args.seq_y, args.normal)
    /\ pc' = "done"
    /\ UNCHANGED <<op, args, wf, mm, ds>>

FastBirnbaumDist ==
    /\ pc = "call"
    /\ op = "fast_birnbaum_dist"
    /\ ret' = fast_birnbaum_dist(args.seq_x, args.seq_y, args.normal)
    /\ pc' = "done"
    /\ UNCHANGED <<op, args, wf, mm, ds>>

NextBirnbaum ==
    \/ BirnbaumSimil \/ MethodsBirnbaumSimil \/ FastBirnbaumSimil
    \/ BirnbaumDist \/ MethodsBirnbaumDist \/ FastBirnbaumDist

SpecBirnbaum == InitBirnbaum /\ [][NextBirnbaum]_vars

(* ------------------------------ distance() ----------------------------- *)
METHODS ==
    {"arith_ncd", "birnbaum_simil", "birnbaum", "bulk_delete", "damerau", "entropy",
     "fragile_ends_simil", "jaccard", "jaro", "jaro_winkler", "levenshtein", "mmcwpa",
     "ratcliff_obershelp", "sorensen", "stemmatological_simil", "subseq_jaccard"}

\* METHODS[method](seq_x, seq_y, normal=normal)
MethodCall(method, seq_x, seq_y, normal) ==
    CASE method = "levenshtein" -> levenshtein_dist(seq_x, seq_y, normal)
      [] method = "damerau" -> levdamerau_dist(seq_x, seq_y, normal)
      [] method = "bulk_delete" -> bulk_delete_dist(seq_x, seq_y, DefaultMaxDelLen, normal)
      [] method = "birnbaum_simil" -> birnbaum_simil(seq_x, seq_y, normal)

\* itertools.combinations(range(n), 2), in the order it yields them
RECURSIVE PairsFrom(_, _, _)
PairsFrom(n, a, b) ==
    IF a >= n THEN <<>>
    ELSE IF b > n THEN PairsFrom(n, a + 1, a + 2)
    ELSE << <<a, b>> >> \o PairsFrom(n, a, b + 1)

Combinations(n) == PairsFrom(n, 1, 2)

\* mutant: a single sequence is let through
Rejected_mut(seqs, method) == Len(seqs) < 1 \/ method \notin METHODS

\* len(seqs) < 2, or method not in METHODS
Rejected(seqs, method) == Len(seqs) < 2 \/ method \notin METHODS

RECURSIVE SumValues(_)
SumValues(dists) ==
    IF dists = <<>> THEN Value(0, 1) ELSE RAdd(Head(dists), SumValues(Tail(dists)))

DistMethods == {"levenshtein", "damerau", "bulk_delete", "birnbaum_simil", "hamming"}

SeqLists == UNION {[1..k -> SeqsUpTo(MaxDistLen)] : k \in 0..MaxSeqs}

InitDistance ==
    /\ op = "distance"
    /\ args \in [seqs : SeqLists, method : DistMethods, normal : BOOLEAN]
    /\ pc = "call"
    /\ wf = NoWF
    /\ mm = NoMM
    /\ ds = NoDS
    /\ ret = None

\* raise ValueError(...)
DistanceReject ==
    /\ pc = "call"
    /\ op = "distance"
    /\ Rejected(args.seqs, args.method)
    /\ ret' = Raise("ValueError")
    /\ pc' = "done"
    /\ UNCHANGED <<op, args, wf, mm, ds>>

DistanceAccept ==
    /\ pc = "call"
    /\ op = "distance"
    /\ ~Rejected(args.seqs, args.method)
    /\ pc' = "compare"
    /\ UNCHANGED <<op, args, wf, mm, ds, ret>>

\* one call of METHODS[method]: the only one when len(seqs) == 2, the next
\* pair of the combinations otherwise; an exception of the method propagates
DistanceCompare ==
    /\ pc = "compare"
    /\ Len(ds.dists) < Len(Combinations(Len(args.seqs)))
    /\ LET pair == Combinations(Len(args.seqs))[Len(ds.dists) + 1]
           r == MethodCall(args.method, args.seqs[pair[1]], args.seqs[pair[2]], args.normal)
       IN  IF IsValue(r)
           THEN /\ ds' = [dists |-> Append(ds.dists, r), calls |-> ds.calls + 1]
                /\ UNCHANGED <<pc, ret>>
           ELSE /\ ds' = [ds EXCEPT !.calls = ds.calls + 1]
                /\ ret' = r
                /\ pc' = "done"
    /\ UNCHANGED <<op, args, wf, mm>>

\* dist = dists[0] for two sequences, sum(dists) / len(seqs) otherwise
DistanceReturn ==
    /\ pc = "compare"
    /\ Len(ds.dists) = Len(Combinations(Len(args.seqs)))
    /\ ret' = IF Len(args.seqs) = 2 THEN ds.dists[1]
              ELSE LET total == SumValues(ds.dists)
                   IN  Value(total.num, total.den * Len(args.seqs))
    /\ pc' = "done"
    /\ UNCHANGED <<op, args, wf, mm, ds>>

NextDistance == DistanceReject \/ DistanceAccept \/ DistanceCompare \/ DistanceReturn

SpecDistance == InitDistance /\ [][NextDistance]_vars

(* ------------------------------ jaccard_dist --------------------------- *)
\* token.jaccard_dist: the union is counted from the two lengths
jaccard_dist(seq_x, seq_y, normal) ==
    LET intersection == Cardinality(Range(seq_x) \cap Range(seq_y))
        union == Len(seq_x) + Len(seq_y) - intersection
    IN  IF union = 0 THEN Raise("ZeroDivisionError")
        ELSE Value(union - intersection, union)

InitJaccard ==
    /\ op = "jaccard_dist"
    /\ args \in WFArgs
    /\ pc = "call"
    /\ wf = NoWF
    /\ mm = NoMM
    /\ ds = NoDS
    /\ ret = None

JaccardDist ==
    /\ pc = "call"
    /\ op = "jaccard_dist"
    /\ ret' = jaccard_dist(args.seq_x, args.seq_y, args.normal)
    /\ pc' = "done"
    /\ UNCHANGED <<op, args, wf, mm, ds>>

NextJaccard == JaccardDist

SpecJaccard == InitJaccard /\ [][NextJaccard]_vars

(* --------------------------- equivalent_string ------------------------- *)
\* The elements are one-character strings, given by their code points: a
\* sequence is a str or a list of them, and str(e) orders them by code point.

\* string.printable: digits, ascii_letters, punctuation, whitespace
printable ==
    [k \in 1..10 |-> 47 + k] \o [k \in 1..26 |-> 96 + k] \o [k \in 1..26 |-> 64 + k]
    \o [k \in 1..15 |-> 32 + k] \o [k \in 1..7 |-> 57 + k] \o [k \in 1..6 |-> 90 + k]
    \o [k \in 1..4 |-> 122 + k] \o <<32, 9, 10, 13, 11, 12>>

\* mapper.get(element) of an element that is not a key
NoChar == -1

\* mutant: the symbols are collected from the first sequence only
elements_mut(seq_x, seq_y) == Range(seq_x)

\* set(seq_x + seq_y)
elements(seq_x, seq_y) == Range(seq_x \o seq_y)

\* the character zip(sorted(symbols, key=str), string.printable) pairs with
\* element; zip stops at the shorter of the two
mapper(symbols, element) ==
    LET position == Cardinality({f \in symbols : f < element}) + 1
    IN  IF element \in symbols /\ position <= Len(printable)
        THEN printable[position] ELSE NoChar

Strings(eq_x, eq_y) == [kind |-> "strings", eq_x |-> eq_x, eq_y |-> eq_y]

equivalent_string(seq_x, seq_y, str_x, str_y) ==
    IF str_x /\ str_y THEN Strings(seq_x, seq_y)
    ELSE LET symbols == elements(seq_x, seq_y)
             new_seq_x == [k \in 1..Len(seq_x) |-> mapper(symbols, seq_x[k])]
             new_seq_y == [k \in 1..Len(seq_y) |-> mapper(symbols, seq_y[k])]
         IN  IF Cardinality(symbols) <= Len(printable)
             THEN IF NoChar \in Range(new_seq_x) \cup Range(new_seq_y)
                  THEN Raise("TypeError")
                  ELSE Strings(new_seq_x, new_seq_y)
             ELSE Raise("ValueError")

\* the code points lo, lo + 1, .., hi
Run(lo, hi) == [k \in 1..(hi - lo + 1) |-> lo + k - 1]

\* sequences with about as many distinct elements as there are symbols,
\* sharing their first element with the short sequences
LongSeqs ==
    {Run(NSym, NSym + Len(printable) + k - 1) : k \in {-2, -1, 0, 1}}

InitEquivalent ==
    /\ op = "equivalent_string"
    /\ args \in [seq_x : Seqs \cup LongSeqs, seq_y : Seqs \cup LongSeqs,
                  str_x : BOOLEAN, str_y : BOOLEAN]
    /\ pc = "call"
    /\ wf = NoWF
    /\ mm = NoMM
    /\ ds = NoDS
    /\ ret = None

EquivalentString ==
    /\ pc = "call"
    /\ op = "equivalent_string"
    /\ ret' = equivalent_string(args.seq_x, args.seq_y, args.str_x, args.str_y)
    /\ pc' = "done"
    /\ UNCHANGED <<op, args, wf, mm, ds>>

NextEquivalent == EquivalentString

SpecEquivalent == InitEquivalent /\ [][NextEquivalent]_vars

(* ---------------- minimum edit scripts, by exhaustive search ----------- *)
\* the sequences one insertion, deletion or substitution away from s
Neighbours(s) ==
    {SubSeq(s, 1, k - 1) \o SubSeq(s, k + 1, Len(s)) : k \in 1..Len(s)}
    \cup {[s EXCEPT ![k] = e] : k \in 1..Len(s), e \in Sigma}
    \cup (IF Len(s) < MaxLen
          THEN {SubSeq(s, 1, k) \o <<e>> \o SubSeq(s, k + 1, Len(s)) :
                    k \in 0..Len(s), e \in Sigma}
          ELSE {})

\* Ball(S, k): <<S0, S1, .., Sk>>, Sn the sequences within n edits of S
RECURSIVE Ball(_, _)
Ball(within, k) ==
    IF k = 0 THEN <<within>>
    ELSE <<within>> \o Ball(within \cup UNION {Neighbours(s) : s \in within}, k - 1)

BallTable == {<<x, Ball({x}, MaxLen)>> : x \in Seqs}
BallsOf(x) == (CHOOSE p \in BallTable : p[1] = x)[2]

\* the least number of single-element edits that turn x into y
MinEdits(x, y) ==
    LET b == BallsOf(x)
    IN  CHOOSE k \in 0..MaxLen : y \in b[k + 1] /\ (k > 0 => y \notin b[k])

(* ------------------------------ claims --------------------------------- *)
\* cell (i, j) holds its final value: a boundary cell, or one the loop has passed
Filled(i, j) == i = 0 \/ j = 0 \/ j < wf.j \/ (j = wf.j /\ i < wf.i)
\* cell (i, j) is the one the last step of the loop wrote
JustWritten(i, j) ==
    /\ i >= 1 /\ j >= 1
    /\ NextI(Len(args.seq_x), i) = wf.i /\ NextJ(Len(args.seq_x), i, j) = wf.j
SameResult(a, b) == a.kind = b.kind /\ REq(a, b)

\* C1: every cell d[i][j] of the matrix a levenshtein_dist call has filled
\* (each cell when the loop writes it, and all of them when the call returns)
\* is the minimum number of single-element insertions, deletions and
\* substitutions turning the length-i prefix of seq_x into the length-j
\* prefix of seq_y, and the returned distance is that minimum for the whole
\* sequences.
C1_LevenshteinIsMinimumEdits ==
    (op = "levenshtein_dist" /\ pc \in {"fill", "done"}) =>
        /\ \A i \in 0..Len(args.seq_x), j \in 0..Len(args.seq_y) :
              (Filled(i, j) /\ (pc = "done" \/ JustWritten(i, j))) =>
                 wf.d[i][j] = Scale * MinEdits(Slice(args.seq_x, 0, i), Slice(args.seq_y, 0, j))
        /\ (pc = "done" /\ ~args.normal) =>
              (IsValue(ret) /\ REq(ret, Cost(MinEdits(args.seq_x, args.seq_y))))

C1_Witness ==
    /\ op = "levenshtein_dist" /\ pc = "done" /\ ~args.normal
    /\ Len(args.seq_x) = MaxLen /\ Len(args.seq_y) = MaxLen - 1
    /\ REq(ret, Cost(2))

\* C4: levenshtein_dist and levdamerau_dist return the same value when the
\* two sequences are swapped.
C4_LevSymmetric ==
    (pc = "done" /\ op \in {"levenshtein_dist", "levdamerau_dist"}) =>
        SameResult(ret, IF op = "levenshtein_dist"
                        THEN levenshtein_dist(args.seq_y, args.seq_x, args.normal)
                        ELSE levdamerau_dist(args.seq_y, args.seq_x, args.normal))

C4_Witness ==
    /\ pc = "done" /\ op = "levdamerau_dist" /\ ~args.normal
    /\ args.seq_x # args.seq_y
    /\ REq(ret, Cost(1))
    /\ REq(levenshtein_dist(args.seq_x, args.seq_y, FALSE), Cost(2))

\* C5: bulk_delete_dist returns the same value when the two sequences are
\* swapped, for every max_del_len >= 1.
C5_BulkDeleteSymmetric ==
    (pc = "done" /\ op = "bulk_delete_dist") =>
        SameResult(ret, bulk_delete_dist(args.seq_y, args.seq_x, args.max_del_len, args.normal))

\* C6: levdamerau_dist satisfies the triangle inequality: the distance the
\* call returns for (x, z) is at most d(x, y) + d(y, z) for every sequence y.
C6_LevDamerauTriangle ==
    (pc = "done" /\ op = "levdamerau_dist" /\ ~args.normal) =>
        \A y \in Seqs :
            RLe(ret, RAdd(levdamerau_dist(args.seq_x, y, FALSE),
                          levdamerau_dist(y, args.seq_y, FALSE)))

\* C7: mmcwpa_dist returns the same value when the two sequences are swapped.
C7_MmcwpaSymmetric ==
    (pc = "done" /\ op = "mmcwpa_dist") =>
        SameResult(ret, mmcwpa_dist(args.seq_y, args.seq_x, args.normal))

\* C8: for a non-empty x, mmcwpa_dist(x, x) is exactly 0: the first round
\* matches the whole sequence, leaving ssnc = (len_x + len_y)^2 and both
\* fragment lists empty, and the call returns after that round.
C8_MmcwpaIdentityIsZero ==
    (op = "mmcwpa_dist" /\ args.seq_x = args.seq_y /\ args.seq_x # <<>>) =>
        /\ mm.rounds <= 1
        /\ mm.rounds = 1 =>
              /\ mm.f_x = <<>> /\ mm.f_y = <<>>
              /\ mm.ssnc = (Len(args.seq_x) + Len(args.seq_y)) * (Len(args.seq_x) + Len(args.seq_y))
        /\ pc = "done" => (ret.kind = "1-sqrt" /\ ret.num = ret.den /\ mm.rounds = 1)

C8_Witness ==
    /\ op = "mmcwpa_dist" /\ pc = "done"
    /\ args.seq_x = args.seq_y /\ Len(args.seq_x) = MaxLen
    /\ \E a, b \in 1..MaxLen : args.seq_x[a] = args.seq_x[b] /\ a # b
    /\ ret.num = ret.den

\* C9: in every state of an mmcwpa_dist call 0 <= ssnc <= (len_x + len_y)^2,
\* and the distance returned for inputs that are not both empty is in [0, 1].
C9_SsncBounded ==
    (op = "mmcwpa_dist" /\ pc \in {"loop", "done"}) =>
        /\ 0 <= mm.ssnc
        /\ mm.ssnc <= (Len(args.seq_x) + Len(args.seq_y)) * (Len(args.seq_x) + Len(args.seq_y))
        /\ (pc = "done" /\ Len(args.seq_x) + Len(args.seq_y) > 0) =>
              (ret.kind = "1-sqrt" /\ 0 <= ret.num /\ ret.num <= ret.den /\ ret.den > 0)

C9_Witness ==
    /\ op = "mmcwpa_dist" /\ pc = "done"
    /\ mm.rounds >= 3
    /\ 0 < ret.num /\ ret.num < ret.den

\* the windows of the shorter sequence and the places of the longer one where
\* they occur: triples (window length, start in the shorter, start in the longer)
ExhaustiveTriples(shorter, longer) ==
    {t \in (1..Len(shorter)) \X (0..Len(shorter)) \X (0..Len(longer)) :
        /\ t[2] + t[1] <= Len(shorter)
        /\ t[3] + t[1] <= Len(longer)
        /\ Slice(shorter, t[2], t[2] + t[1]) = Slice(longer, t[3], t[3] + t[1])}

ExhaustiveScore(x, y) ==
    IF Len(x) < Len(y) THEN Cardinality(ExhaustiveTriples(x, y))
    ELSE Cardinality(ExhaustiveTriples(y, x))

\* C10: birnbaum_simil, as registered in METHODS, returns the exhaustive
\* score: the number of triples (window length, start in the shorter
\* sequence, start in the longer sequence) whose two windows are equal.
C10_BirnbaumIsExhaustive ==
    (pc = "done" /\ op = "birnbaum_simil" /\ ~args.normal) =>
        (IsValue(ret) /\ REq(ret, Value(ExhaustiveScore(args.seq_x, args.seq_y), 1)))

\* C2: distance() raises an error whenever it is given fewer than two
\* sequences or a method that is not a key of METHODS, and has then called
\* no comparison function and collected no partial result.
C2_DistanceRejectsFirst ==
    (op = "distance" /\ (Len(args.seqs) < 2 \/ args.method \notin METHODS)) =>
        /\ pc # "compare"
        /\ ds.calls = 0 /\ ds.dists = <<>>
        /\ pc = "done" => ret.kind = "ValueError"

C2_Witness ==
    /\ op = "distance" /\ pc = "done"
    /\ Len(args.seqs) = 1 /\ args.method \in METHODS
    /\ ret.kind = "ValueError" /\ ds.calls = 0

\* the unordered pairs of positions of a list of n sequences
UnorderedPairs(n) == {p \in (1..n) \X (1..n) : p[1] < p[2]}

RECURSIVE SumOverPairs(_, _, _, _)
SumOverPairs(pairs, seqs, method, normal) ==
    IF pairs = {} THEN Value(0, 1)
    ELSE LET p == CHOOSE q \in pairs : TRUE
         IN  RAdd(MethodCall(method, seqs[p[1]], seqs[p[2]], normal),
                  SumOverPairs(pairs \ {p}, seqs, method, normal))

\* C3: for more than two sequences distance() returns the arithmetic mean of
\* the pairwise results: their sum over all n*(n-1)/2 unordered pairs divided
\* by the number of those pairs.
C3_DistanceIsMeanOfPairs ==
    (op = "distance" /\ pc = "done" /\ Len(args.seqs) > 2 /\ IsValue(ret)) =>
        LET pairs == UnorderedPairs(Len(args.seqs))
            total == SumOverPairs(pairs, args.seqs, args.method, args.normal)
        IN  /\ Cardinality(pairs) * 2 = Len(args.seqs) * (Len(args.seqs) - 1)
            /\ REq(ret, Value(total.num, total.den * Cardinality(pairs)))

\* s holds some element more than once
HasRepeats(s) == \E a, b \in 1..Len(s) : a # b /\ s[a] = s[b]

\* an un-normalized similarity call of a sequence with itself has returned
SelfSimilarityDone ==
    /\ pc = "done" /\ ~args.normal /\ args.seq_x = args.seq_y
    /\ op \in {"birnbaum_simil", "methods.birnbaum_simil", "methods.fast_birnbaum_simil"}

\* C11 as stated: birnbaum_simil(x, x) is len(x) * (len(x) + 1) / 2 for every
\* sequence x, with or without repeated elements, for the exhaustive variant
\* as well as for the fast block-matching variant.
C11_SelfSimilarityIsTriangular ==
    SelfSimilarityDone =>
        (IsValue(ret) /\ REq(ret, Value(Len(args.seq_x) * (Len(args.seq_x) + 1), 2)))

\* C11 amended: birnbaum_simil(x, x) is len(x) * (len(x) + 1) / 2 for every x
\* for the fast variant; for the exhaustive variant it is at least that
\* number, and equal to it exactly when x has no repeated element.
C11_SelfSimilarityAmended ==
    SelfSimilarityDone =>
        LET triangular == Value(Len(args.seq_x) * (Len(args.seq_x) + 1), 2)
        IN  /\ IsValue(ret)
            /\ IF op = "methods.birnbaum_simil"
               THEN RLe(triangular, ret) /\ (REq(ret, triangular) <=> ~HasRepeats(args.seq_x))
               ELSE REq(ret, triangular)

C11_Witness ==
    /\ SelfSimilarityDone /\ op = "methods.birnbaum_simil"
    /\ Len(args.seq_x) >= 2 /\ ~HasRepeats(args.seq_x)
    /\ REq(ret, Value(Len(args.seq_x) * (Len(args.seq_x) + 1), 2))

\* C12: fast_birnbaum_dist returns the same value when the two sequences are
\* swapped, pairs of equal length included.
C12_FastBirnbaumDistSymmetric ==
    (pc = "done" /\ op = "fast_birnbaum_dist") =>
        SameResult(ret, fast_birnbaum_dist(args.seq_y, args.seq_x, args.normal))

\* C13: for non-empty sequences x and y, birnbaum_dist(x, y) is 0 if and only
\* if x == y.
C13_BirnbaumDistDiscernsIdentity ==
    (pc = "done" /\ op \in {"birnbaum_dist", "methods.birnbaum_dist"}
        /\ args.seq_x # <<>> /\ args.seq_y # <<>>) =>
        (IsValue(ret) /\ (ret.num = 0 <=> args.seq_x = args.seq_y))

C18_BirnbaumSimilNormal ==
    (pc = "done" /\ op \in {"birnbaum_simil", "methods.fast_birnbaum_simil"}
        /\ args.normal /\ args.seq_x # <<>> /\ args.seq_y # <<>>) =>
        LET simil(x, y) == IF op = "birnbaum_simil" THEN birnbaum_simil(x, y, FALSE)
                           ELSE fast_birnbaum_simil(x, y, FALSE)
            xx == simil(args.seq_x, args.seq_x)
            yy == simil(args.seq_y, args.seq_y)
            largest == IF RLe(xx, yy) THEN yy ELSE xx
        IN  /\ IsValue(ret)
            /\ SameResult(ret, Ratio(simil(args.seq_x, args.seq_y), largest))
            /\ 0 <= ret.num /\ ret.num <= ret.den
            /\ args.seq_x = args.seq_y => ret.num = ret.den

\* C15: jaccard_dist(x, x) is 0 for every non-empty sequence x.
C15_JaccardIdentityIsZero ==
    (pc = "done" /\ op = "jaccard_dist"
        /\ args.seq_x = args.seq_y /\ args.seq_x # <<>>) =>
        (IsValue(ret) /\ ret.num = 0)

\* the call runs stemmatological_simil with its default parameters
DefaultStemm ==
    /\ op = "stemmatological_simil"
    /\ args.max_del_len = DefaultMaxDelLen
    /\ args.frag_start = DefaultFrag /\ args.frag_end = DefaultFrag

\* C16: fragile_ends_simil and stemmatological_simil (default parameters)
\* satisfy the triangle inequality: the value the call returns for (x, z) is
\* at most d(x, y) + d(y, z) for every sequence y.
C16_SimilTriangle ==
    (pc = "done" /\ ~args.normal /\ (op = "fragile_ends_simil" \/ DefaultStemm)) =>
        \A y \in Seqs :
            RLe(ret, IF op = "fragile_ends_simil"
                     THEN RAdd(fragile_ends_simil(args.seq_x, y, FALSE),
                               fragile_ends_simil(y, args.seq_y, FALSE))
                     ELSE RAdd(stemmatological_simil(args.seq_x, y, DefaultFrag, DefaultFrag,
                                                     DefaultMaxDelLen, FALSE),
                               stemmatological_simil(y, args.seq_y, DefaultFrag, DefaultFrag,
                                                     DefaultMaxDelLen, FALSE)))

\* C17: with normal=True, levenshtein_dist, levdamerau_dist, bulk_delete_dist,
\* stemmatological_simil and fragile_ends_simil return a value in [0, 1] for
\* all non-empty sequences x, y.
C17_NormalInUnitInterval ==
    (pc = "done" /\ op \in WFOps /\ args.normal
        /\ args.seq_x # <<>> /\ args.seq_y # <<>>) =>
        (IsValue(ret) /\ ret.den > 0 /\ 0 <= ret.num /\ ret.num <= ret.den)

C17_Witness ==
    /\ pc = "done" /\ op = "fragile_ends_simil" /\ args.normal
    /\ Len(args.seq_x) = MaxLen /\ Len(args.seq_y) = 1
    /\ IsValue(ret) /\ 0 < ret.num /\ ret.num < ret.den

\* C19: called with two empty sequences, levenshtein_dist, levdamerau_dist,
\* bulk_delete_dist and stemmatological_simil with normal=True, and
\* mmcwpa_dist, return the distance 0 instead of raising a division error.
C19_EmptyInputsReturnZero ==
    (pc = "done" /\ args.seq_x = <<>> /\ args.seq_y = <<>>
        /\ \/ op = "mmcwpa_dist"
           \/ /\ args.normal
              /\ op \in {"levenshtein_dist", "levdamerau_dist", "bulk_delete_dist",
                          "stemmatological_simil"}) =>
        /\ ret.kind # "ZeroDivisionError"
        /\ IF ret.kind = "1-sqrt" THEN ret.num = ret.den ELSE ret.num = 0

\* the two returned strings keep the lengths of the inputs, and two positions
\* hold the same character exactly when they hold equal elements
Lossless ==
    /\ ret.kind = "strings"
    /\ Len(ret.eq_x) = Len(args.seq_x) /\ Len(ret.eq_y) = Len(args.seq_y)
    /\ LET old == args.seq_x \o args.seq_y
           new == ret.eq_x \o ret.eq_y
       IN  \A p, q \in 1..Len(old) : (new[p] = new[q]) <=> (old[p] = old[q])

DistinctElements == Cardinality(Range(args.seq_x) \cup Range(args.seq_y))

EmptyCandidates ==
    /\ op = "_wagner_fischer"
    /\ args.empty_at[1] \in 1..Len(args.seq_x)
    /\ args.empty_at[2] \in 1..Len(args.seq_y)

\* C21: _wagner_fischer called with a cost function that returns an empty
\* candidate collection for some cell ends by raising an error (the ValueError
\* of min(), raised when the loop reaches that cell); it never returns a
\* value, so none computed from a partially filled matrix.
C21_EmptyCandidatesRaise ==
    (EmptyCandidates /\ pc = "done") =>
        /\ ret.kind = "ValueError"
        /\ <<wf.i, wf.j>> = args.empty_at

C21_Witness ==
    /\ EmptyCandidates /\ pc = "done"
    /\ args.empty_at = <<2, 2>> /\ Len(args.seq_x) = MaxLen
    /\ ret.kind = "ValueError"

\* the elements held by the fragments of a list
ElementsOf(f) == UNION {Range(f[k]) : k \in 1..Len(f)}

\* a step of the loop of mmcwpa_dist that is a round of _mmcwpa
IsRound == pc = "loop" /\ mm'.rounds = mm.rounds + 1
\* a round adds to ssnc exactly when it finds a match
FindsMatch == IsRound /\ mm'.ssnc # mm.ssnc
FindsNoMatch == IsRound /\ mm'.ssnc = mm.ssnc

\* C22: a round reports no match only if no element of any remaining F_x
\* fragment, the first or a later one, occurs in any remaining F_y fragment.
C22_NoMatchOnlyWhenDisjoint ==
    [][FindsNoMatch => ElementsOf(mm.f_x) \cap ElementsOf(mm.f_y) = {}]_vars

\* every pair of equal windows: length elements from offset i of fragment idx_x
\* of F_x and from offset j of fragment idx_y of F_y
Candidates(f_x, f_y) ==
    {c \in [idx_x : 1..Len(f_x), length : 1..MaxLen, i : 0..MaxLen,
            idx_y : 1..Len(f_y), j : 0..MaxLen] :
        /\ c.i + c.length <= Len(f_x[c.idx_x])
        /\ c.j + c.length <= Len(f_y[c.idx_y])
        /\ Slice(f_x[c.idx_x], c.i, c.i + c.length)
               = Slice(f_y[c.idx_y], c.j, c.j + c.length)}

\* b comes before c in the scan order of the claim
Earlier(b, c) ==
    \/ b.idx_x < c.idx_x
    \/ b.idx_x = c.idx_x /\ b.length > c.length
    \/ b.idx_x = c.idx_x /\ b.length = c.length /\ b.i < c.i
    \/ b.idx_x = c.idx_x /\ b.length = c.length /\ b.i = c.i /\ b.idx_y < c.idx_y
    \/ /\ b.idx_x = c.idx_x /\ b.length = c.length /\ b.i = c.i
       /\ b.idx_y = c.idx_y /\ b.j < c.j

\* the list f with length elements cut out of fragment idx at offset i
CutOut(f, idx, i, length) ==
    LET sf == f[idx]
        parts == << SubSeq(sf, 1, i), SubSeq(sf, i + length + 1, Len(sf)) >>
    IN  SubSeq(f, 1, idx - 1) \o SelectSeq(parts, NonEmpty) \o SubSeq(f, idx + 1, Len(f))

\* C23: the match removed in a round is the first one in the scan order
\* (fragment of F_x ascending, window length descending, offset in that
\* fragment ascending, fragment of F_y ascending, lowest occurrence in that
\* fragment): no candidate earlier in that order matches, and that one match
\* and no other is applied in the round.
C23_FirstMatchInScanOrder ==
    [][FindsMatch =>
          \E c \in Candidates(mm.f_x, mm.f_y) :
              /\ \A b \in Candidates(mm.f_x, mm.f_y) : ~Earlier(b, c)
              /\ mm'.f_x = CutOut(mm.f_x, c.idx_x, c.i, c.length)
              /\ mm'.f_y = CutOut(mm.f_y, c.idx_y, c.j, c.length)
              /\ mm'.ssnc = mm.ssnc + (2 * c.length) * (2 * c.length)]_vars

C23_Witness ==
    /\ op = "mmcwpa_dist" /\ pc = "loop"
    /\ mm.rounds = 2 /\ mm.ssnc = 8
    /\ mm.f_x # <<>> /\ mm.f_y # <<>>
    /\ args.seq_x[1] # args.seq_y[1]

\* the elements of all fragments of a list, in order
RECURSIVE Flat(_)
Flat(f) == IF f = <<>> THEN <<>> ELSE Head(f) \o Flat(Tail(f))

\* the place of offset i of fragment idx in Flat(f)
FlatOffset(f, idx, i) == Len(Flat(SubSeq(f, 1, idx - 1))) + i

\* g is f with length elements removed at offset i of fragment idx, the
\* other fragments being the same ones in the same order
RemovedFrom(f, g, idx, i, length) ==
    LET at == FlatOffset(f, idx, i)
        after == Len(f) - idx
    IN  /\ Flat(g) = SubSeq(Flat(f), 1, at) \o SubSeq(Flat(f), at + length + 1, Len(Flat(f)))
        /\ Len(g) >= idx - 1 + after
        /\ SubSeq(g, 1, idx - 1) = SubSeq(f, 1, idx - 1)
        /\ SubSeq(g, Len(g) - after + 1, Len(g)) = SubSeq(f, idx + 1, Len(f))

\* C24: a round that finds a match of length L removes exactly those L
\* elements from one fragment of F_x and L equal elements from one fragment
\* of F_y, adds exactly (2 * L)^2 to ssnc, leaves every other fragment
\* unchanged and in the same order, leaves no empty fragment in either
\* returned list, and does not modify the lists it was given.
C24_RoundFrame ==
    [][FindsMatch =>
          /\ \E c \in Candidates(mm.f_x, mm.f_y) :
                 /\ RemovedFrom(mm.f_x, mm'.f_x, c.idx_x, c.i, c.length)
                 /\ RemovedFrom(mm.f_y, mm'.f_y, c.idx_y, c.j, c.length)
                 /\ mm'.ssnc = mm.ssnc + (2 * c.length) * (2 * c.length)
          /\ \A k \in 1..Len(mm'.f_x) : mm'.f_x[k] # <<>>
          /\ \A k \in 1..Len(mm'.f_y) : mm'.f_y[k] # <<>>
          /\ mm'.seq_x = mm.f_x /\ mm'.seq_y = mm.f_y]_vars

C24_Witness ==
    /\ op = "mmcwpa_dist" /\ pc = "loop"
    /\ mm.rounds = 1 /\ mm.ssnc = 4
    /\ Len(mm.f_x) = 2 /\ Len(mm.f_y) = 2
    /\ mm.seq_x = <<args.seq_x>> /\ mm.seq_y = <<args.seq_y>>

\* g is f with one or more consecutive elements taken out
Shrunk(f, g) ==
    \E at \in 0..Len(f), length \in 1..Len(f) :
        /\ at + length <= Len(f)
        /\ g = SubSeq(f, 1, at) \o SubSeq(f, at + length + 1, Len(f))

\* C25: mmcwpa_dist terminates: every round that finds a match strictly
\* decreases the total length of both F_x and F_y, what is left being the
\* elements that were there before without the removed ones, a round that
\* finds no match returns two empty lists, and the call reaches its return.
C25_MmcwpaTerminates ==
    /\ [][/\ FindsMatch =>
                /\ Shrunk(Flat(mm.f_x), Flat(mm'.f_x))
                /\ Shrunk(Flat(mm.f_y), Flat(mm'.f_y))
          /\ FindsNoMatch => (mm'.f_x = <<>> /\ mm'.f_y = <<>>)]_vars
    /\ <>(pc = "done")

C25_Witness ==
    /\ op = "mmcwpa_dist" /\ pc = "done"
    /\ mm.rounds = 2 /\ mm.ssnc = 4
    /\ mm.seq_x # <<>> /\ mm.seq_y # <<>>
    /\ mm.f_x = <<>> /\ mm.f_y = <<>>

\* cell (i, j) holds its final value: it is a boundary cell of the seed
\* matrix, or the loop has assigned to it
Final(i, j) == i = 0 \/ j = 0 \/ <<i, j>> \in Range(wf.written)

\* a value no cost is ever equal to
Unset == -1000 * Scale

\* the matrix with every cell that is not final overwritten
OnlyFinal(d) ==
    [i \in DOMAIN d |-> [j \in DOMAIN d[i] |-> IF Final(i, j) THEN d[i][j] ELSE Unset]]

\* C26: during the fill loop of _wagner_fischer every matrix cell read by the
\* cost function for cell (i, j), for each of the five cost families, is a
\* boundary cell or a cell already given its final value (the candidates are
\* the same when every other cell is overwritten), and no cell is written
\* more than once.
C26_FillOrderRespectsDependencies ==
    (op \in WFOps /\ pc \in {"fill", "done"}) =>
        /\ \A a, b \in 1..Len(wf.written) : wf.written[a] = wf.written[b] => a = b
        /\ pc = "done" => Len(wf.written) = Len(args.seq_x) * Len(args.seq_y)
        /\ (pc = "fill" /\ ~LoopDone(Len(args.seq_x), Len(args.seq_y), wf.i, wf.j)) =>
              /\ ~Final(wf.i, wf.j)
              /\ costs_fn_call(CostsOf(op, args), args.seq_x, args.seq_y, wf.d, wf.i, wf.j)
                    = costs_fn_call(CostsOf(op, args), args.seq_x, args.seq_y,
                                    OnlyFinal(wf.d), wf.i, wf.j)

C26_Witness ==
    /\ op = "bulk_delete_dist" /\ pc = "fill" /\ args.max_del_len = MaxDel
    /\ wf.i = MaxLen /\ wf.j = 2
    /\ Len(wf.written) = MaxLen + MaxLen - 1
    /\ Len(_bulk_delete_costs(args.max_del_len, args.seq_x, args.seq_y, wf.d, wf.i, wf.j)) > 3

\* C27: for every cell (i, j) with i >= 1 and j >= 1 the bulk-delete cost
\* rule returns, besides the insertion and the substitution candidate,
\* exactly one deletion candidate d[i - k][j] + 1 for each block length k in
\* 1..min(max_del_len, i).
C27_BulkDeleteCandidates ==
    (op = "bulk_delete_dist" /\ pc = "fill"
        /\ ~LoopDone(Len(args.seq_x), Len(args.seq_y), wf.i, wf.j)) =>
        LET costs == _bulk_delete_costs(args.max_del_len, args.seq_x, args.seq_y,
                                        wf.d, wf.i, wf.j)
            deletions == SubSeq(costs, 3, Len(costs))
        IN  /\ costs[1] = wf.d[wf.i][wf.j - 1] + Scale
            /\ costs[2] = wf.d[wf.i - 1][wf.j - 1]
                             + (IF args.seq_x[wf.i] = args.seq_y[wf.j] THEN 0 ELSE Scale)
            /\ Len(deletions) = Min2(args.max_del_len, wf.i)
            /\ \A k \in 1..Min2(args.max_del_len, wf.i) :
                   \E n \in 1..Len(deletions) : deletions[n] = wf.d[wf.i - k][wf.j] + Scale

\* C28: stemmatological_simil generalizes fragile_ends_simil: with
\* frag_start = frag_end = 10 and max_del_len = 1 it returns the value of
\* fragile_ends_simil(x, y) for all sequences x, y.
C28_StemmatologicalGeneralizesFragile ==
    (pc = "done" /\ op = "stemmatological_simil" /\ ~args.normal
        /\ args.max_del_len = 1
        /\ args.frag_start = DefaultFrag /\ args.frag_end = DefaultFrag) =>
        SameResult(ret, fragile_ends_simil(args.seq_x, args.seq_y, FALSE))

\* the boundary column d[0][0], .., d[m][0] of the matrix of the call
Column == [i \in 0..Len(args.seq_x) |-> wf.d[i][0]]

\* C29: the boundary column d[i][0] built by _stemmatological_initial_matrix
\* is not monotonic in general: with the default parameters (max_del_len = 5,
\* frag_start = frag_end = 10) and every length m of seq_x from 2 up to
\* max_del_len there is an i with d[i + 1][0] < d[i][0]; with max_del_len = 1
\* the column is increasing.
C29_BoundaryColumnNotMonotonic ==
    (op = "stemmatological_simil" /\ pc \in {"fill", "done"}) =>
        /\ (DefaultStemm /\ Len(args.seq_x) \in 2..DefaultMaxDelLen) =>
               \E i \in 1..(Len(args.seq_x) - 1) : Column[i + 1] < Column[i]
        /\ args.max_del_len = 1 =>
               \A i \in 0..(Len(args.seq_x) - 1) : Column[i] < Column[i + 1]

C29_Witness ==
    /\ DefaultStemm /\ pc = "fill"
    /\ Len(args.seq_x) = MaxLen
    /\ Column[MaxLen] < Column[MaxLen - 1]

\* what the legacy loop holds after k rounds from ([x], [y], 0)
RECURSIVE LegacyAfter(_)
LegacyAfter(k) ==
    IF k = 0 THEN << <<args.seq_x>>, <<args.seq_y>>, 0 >>
    ELSE LET before == LegacyAfter(k - 1)
         IN  legacy__mmcwpa(before[1], before[2], before[3])

\* C30: the MMCWPA variants agree: the rounds of edit._mmcwpa from
\* ([x], [y], 0) leave the same fragment lists as those of the legacy
\* seqsim/mmcwpa._mmcwpa after every round in which both find a match, and
\* reach the same final ssnc, so edit.mmcwpa_dist(x, y) is 1 - mmcwpa(x, y)
\* of the legacy module.
C30_MmcwpaVariantsAgree ==
    (op = "mmcwpa_dist") =>
        /\ (/\ pc = "loop" /\ mm.rounds >= 1
             /\ Len(Flat(mm.f_x)) < Len(Flat(mm.seq_x))
             /\ LegacyAfter(mm.rounds)[3] > LegacyAfter(mm.rounds - 1)[3]) =>
               LegacyAfter(mm.rounds) = <<mm.f_x, mm.f_y, mm.ssnc>>
        /\ pc = "done" =>
               LET legacy == legacy_mmcwpa(args.seq_x, args.seq_y)
               IN  IF legacy.kind = "sqrt"
                   THEN ret.kind = "1-sqrt" /\ REq(ret, legacy)
                   ELSE ret.kind = legacy.kind

====
